---- MODULE Spec2Model ----
(***************************************************************************)
(* A model of sig_sharepoint_app/sharepoint_api.py: the session            *)
(* construction of SharepointClientAccess and the operations of            *)
(* SharepointAPI, run against a remote site whose libraries, folders and   *)
(* files are the state.  One action is one call of one method.  The k-th   *)
(* request a call sends to the remote service fails when k = failAt.       *)
(***************************************************************************)
EXTENDS Integers, Sequences, FiniteSets, TLC

VARIABLES
    libs,        \* the site's lists, in enumeration order: [title, folders]
    rfiles,      \* server-relative paths of the files stored on the site
    localFiles,  \* paths that exist on the local file system
    handles,     \* local paths with an open file handle
    settings,    \* django settings read by from_url
    session,     \* the SharepointAPI object the caller holds
    last,        \* the call that has just returned or raised
    repeat       \* how the last call repeats the call before it

vars == <<libs, rfiles, localFiles, handles, settings, session, last, repeat>>

(* ------------------------------ bounds -------------------------------- *)

MaxLibs == 2      \* lists on the site

(* ------------------------------ inputs -------------------------------- *)

\* Strings are sequences of characters, so that lower() and `in` are computed.
Titles == {<<"D", "o">>, <<"A", "d">>}
LibraryNames == Titles \cup {<<"d", "o">>}
FolderNames == {<<"r">>, <<"R">>}
Queries == {<<>>, <<"d">>, <<"D", "O">>, <<"a">>, <<"o", "x">>}
FileNames == {"", "n.txt"}
TransferFolders == {<<"r">>}

Servers == {"https://contoso.example", "https://default.example"}
Sites == {"Engineering", "Standard"}

\* Local paths: a readable file, a file that exists but cannot be opened, a
\* path with nothing at it, a path in a directory that does not exist.
\* A path is its sequence of components; <<>> is the empty string.
ReadablePath == <<"data", "a.txt">>
LockedPath == <<"data", "locked.txt">>
MissingPath == <<"data", "missing.txt">>
OutPath == <<"data", "out.bin">>
NoDirPath == <<"nodir", "out.bin">>
UploadPaths == {<<>>, ReadablePath, LockedPath, MissingPath}
DownloadPaths == {OutPath, NoDirPath}
Contents == {"", "bytes"}

(* ------------------------- results of a call -------------------------- *)

\* st "ret": the call returned val (none: it returned None).
\* st "raise": err propagated to the caller.  caught: the error the call's own
\* handler caught and logged.  net: requests sent.  adds: add requests sent.
\* ctxs: client contexts built.
Ret(v, n) ==
    [st |-> "ret", none |-> FALSE, val |-> v, err |-> "", caught |-> "", net |-> n, adds |-> 0, ctxs |-> 0]

RetNone(n) ==
    [st |-> "ret", none |-> TRUE, val |-> <<>>, err |-> "", caught |-> "", net |-> n, adds |-> 0, ctxs |-> 0]

Raise(e, n) ==
    [st |-> "raise", none |-> FALSE, val |-> <<>>, err |-> e, caught |-> "", net |-> n, adds |-> 0, ctxs |-> 0]

\* Which raised errors an `except SharepointError` clause catches.  The class
\* is defined in sig_sharepoint_app/errors.py: it is the error of every
\* failure the remote service reports, and the error upload_file raises itself.
IsSharepointError(e) == e \in {"SharepointError", "RemoteError"}

Call(op, args, r) ==
    [op |-> op, args |-> args, st |-> r.st, none |-> r.none, val |-> r.val,
     err |-> r.err, caught |-> r.caught, net |-> r.net, adds |-> r.adds,
     ctxs |-> r.ctxs]

NoCall == Call("", <<>>, RetNone(0))

\* Call c against the call b before it: "same" when both are create_folder
\* calls with the same arguments that returned the same folder, "differs" when
\* they returned different ones, "no" for any other pair of calls.
Repeats(b, c) ==
    IF /\ b.op = "create_folder" /\ c.op = "create_folder"
       /\ b.args = c.args
       /\ b.st = "ret" /\ c.st = "ret"
    THEN IF b.val = c.val THEN "same" ELSE "differs"
    ELSE "no"

(* ----------------------------- strings -------------------------------- *)

LowerChar(c) ==
    CASE c = "D" -> "d"
      [] c = "O" -> "o"
      [] c = "A" -> "a"
      [] c = "R" -> "r"
      [] OTHER -> c

Lower(s) == [i \in 1..Len(s) |-> LowerChar(s[i])]

\* Python's `s in t` on strings.
IsIn(s, t) ==
    \E i \in 0..(Len(t) - Len(s)) : SubSeq(t, i + 1, i + Len(s)) = s

Indices(ls) == [i \in 1..Len(ls) |-> i]

(* ------------------------- ResourceLocator ---------------------------- *)

\* The remote service's answer to web.lists.filter("Title eq '<name>'").
ListsWithTitle(ls, name) ==
    SelectSeq(Indices(ls), LAMBDA i : ls[i].title = name)

\* Mutant: the first match is taken whenever there is one.
FirstMatch(lists, n) ==
    IF Len(lists) >= 1 THEN Ret(lists[1], n) ELSE RetNone(n)

\* lists[0] if len(lists) == 1 else None
SingleMatch(lists, n) ==
    IF Len(lists) = 1 THEN Ret(lists[1], n) ELSE RetNone(n)

get_document_library_from_name(ls, name, n0, failAt) ==
    IF n0 + 1 = failAt
    THEN Raise("RemoteError", n0 + 1)
    ELSE SingleMatch(ListsWithTitle(ls, name), n0 + 1)

\* The remote service's answer to root_folder.folders.filter("Name eq '<F>'").
FoldersWithName(lib, F) ==
    IF F \in lib.folders THEN <<F>> ELSE <<>>

find_folder(ls, L, F, n0, failAt) ==
    LET lib == get_document_library_from_name(ls, L, n0, failAt)
    IN  IF lib.st = "raise" THEN lib
        ELSE IF lib.none THEN Raise("AttributeError", lib.net)
        ELSE IF lib.net + 1 = failAt THEN Raise("RemoteError", lib.net + 1)
        ELSE LET result == FoldersWithName(ls[lib.val], F)
             IN  IF Len(result) = 1
                 THEN Ret(<<lib.val, result[1]>>, lib.net + 1)
                 ELSE RetNone(lib.net + 1)

\* Mutant: the folder is added without looking at what find_folder returned.
FolderAlwaysMissing(folder) == TRUE

\* `if not folder:` in create_folder
FolderMissing(folder) == folder.none

\* The result of create_folder, and the site's lists after it.
create_folder(ls, L, F, n0, failAt) ==
    LET folder == find_folder(ls, L, F, n0, failAt)
    IN  IF folder.st = "raise" THEN [r |-> folder, libs |-> ls]
        ELSE IF ~FolderMissing(folder) THEN [r |-> folder, libs |-> ls]
        ELSE LET lib == get_document_library_from_name(ls, L, folder.net, failAt)
             IN  IF lib.st = "raise" THEN [r |-> lib, libs |-> ls]
                 ELSE IF lib.none
                      THEN [r |-> Raise("AttributeError", lib.net), libs |-> ls]
                 ELSE IF lib.net + 1 = failAt
                      THEN [r |-> Raise("RemoteError", lib.net + 1), libs |-> ls]
                 ELSE [r |-> [Ret(<<lib.val, F>>, lib.net + 1) EXCEPT !.adds = 1],
                       libs |-> [ls EXCEPT ![lib.val].folders = @ \cup {F}]]

create_document_library(ls, name, n0, failAt) ==
    LET element == get_document_library_from_name(ls, name, n0, failAt)
    IN  IF element.st = "raise" THEN [r |-> element, libs |-> ls]
        ELSE IF ~element.none THEN [r |-> element, libs |-> ls]
        ELSE IF element.net + 1 = failAt
             THEN [r |-> Raise("RemoteError", element.net + 1), libs |-> ls]
        ELSE [r |-> [Ret(Len(ls) + 1, element.net + 1) EXCEPT !.adds = 1],
              libs |-> Append(ls, [title |-> name, folders |-> {}])]

RemoveAt(ls, i) == SubSeq(ls, 1, i - 1) \o SubSeq(ls, i + 1, Len(ls))

delete_document_library(ls, name, n0, failAt) ==
    LET element == get_document_library_from_name(ls, name, n0, failAt)
    IN  IF element.st = "raise" THEN [r |-> element, libs |-> ls]
        ELSE IF element.none THEN [r |-> RetNone(element.net), libs |-> ls]
        ELSE IF element.net + 1 = failAt
             THEN [r |-> Raise("RemoteError", element.net + 1), libs |-> ls]
        ELSE [r |-> RetNone(element.net + 1), libs |-> RemoveAt(ls, element.val)]

\* Mutant: the comparison without lower().
TitleContainsExactCase(name, title) == IsIn(name, title)

\* name.lower() in folder.title.lower()
TitleContains(name, title) == IsIn(Lower(name), Lower(title))

\* The loop of get_list_of_folders over folders[k..], with `_` as acc.
RECURSIVE FolderLoop(_, _, _, _, _)
FolderLoop(ls, folders, name, k, acc) ==
    IF k > Len(folders) THEN acc
    ELSE IF name # <<>>
         THEN FolderLoop(ls, folders, name, k + 1,
                         IF TitleContains(name, ls[folders[k]].title)
                         THEN Append(acc, folders[k])
                         ELSE acc)
         ELSE folders

get_list_of_folders(ls, name, failAt) ==
    IF failAt = 1
    THEN [RetNone(1) EXCEPT !.caught = "RemoteError"]
    ELSE Ret(FolderLoop(ls, Indices(ls), name, 1, <<>>), 1)

(* -------------------- CredentialResolver, SessionFactory -------------- *)

NoSession == [state |-> "None", site |-> "", server_url |-> "", complete_url |-> <<>>]

\* The local secrets files: root_cred_path -> what open() and json.load() give.
SecretsPath == <<"secrets.json">>
BadSecretsPath == <<"bad.json">>
NoSecretsPath == <<"nofile.json">>
CredPaths == {<<>>, SecretsPath, BadSecretsPath, NoSecretsPath}
SecretsSites == {"Engineering"}
ClientIds == {"", "id"}
ClientSecrets == {"", "secret"}

\* Mutant: `and` in place of `or`.
CredentialsBothMissing(client_id, client_secret) ==
    client_id = "" /\ client_secret = ""

\* `not client_id or not client_secret`
CredentialsMissing(client_id, client_secret) ==
    client_id = "" \/ client_secret = ""

\* Lines 27-37 of __init__: the credentials, or the error raised.
ResolveCredentials(site, root_cred_path, client_id, client_secret) ==
    IF root_cred_path # <<>>
    THEN IF root_cred_path = NoSecretsPath THEN [err |-> "OSError"]
         ELSE IF root_cred_path = BadSecretsPath THEN [err |-> "ValueError"]
         ELSE IF site \notin SecretsSites THEN [err |-> "KeyError"]
         ELSE [err |-> "", client_id |-> <<"username", site>>,
               client_secret |-> <<"password", site>>]
    ELSE IF CredentialsMissing(client_id, client_secret)
         THEN [err |-> "Exception"]
         ELSE [err |-> "", client_id |-> client_id, client_secret |-> client_secret]

\* Mutant: the site query outside any try block.
SiteQueryUncaught(n, failAt) ==
    IF n = failAt THEN "raise" ELSE "ok"

\* try: ctx.site.get().execute_query() / except SharepointError: logger.error
TrySiteQuery(n, failAt) ==
    IF n = failAt
    THEN IF IsSharepointError("RemoteError") THEN "logged" ELSE "raise"
    ELSE "ok"

Ready(site, server_url) ==
    [state |-> "Ready", site |-> site, server_url |-> server_url,
     complete_url |-> <<server_url, "/sites/", site>>]

\* Builds the context, fetches the web (request n0+1), then the site (n0+2).
get_sharepoint_ctx(site, server_url, n0, failAt) ==
    IF n0 + 1 = failAt
    THEN [Raise("RemoteError", n0 + 1) EXCEPT !.ctxs = 1]
    ELSE LET second == TrySiteQuery(n0 + 2, failAt)
         IN  IF second = "raise"
             THEN [Raise("RemoteError", n0 + 2) EXCEPT !.ctxs = 1]
             ELSE [Ret(Ready(site, server_url), n0 + 2) EXCEPT
                      !.ctxs = 1,
                      !.caught = IF second = "logged" THEN "RemoteError" ELSE ""]

\* SharepointClientAccess.__init__, through SharepointAPI.__init__
Construct(site, server_url, root_cred_path, client_id, client_secret, n0, failAt) ==
    LET cred == ResolveCredentials(site, root_cred_path, client_id, client_secret)
    IN  IF cred.err # "" THEN Raise(cred.err, n0)
        ELSE get_sharepoint_ctx(site, server_url, n0, failAt)

(* ------------------------------ UrlRouter ----------------------------- *)

\* URLs as their parts: <<server, "sites", site, ...>> is what the pattern of
\* apps.core.global_constants matches.
MatchingUrl == <<"https://contoso.example", "sites", "Engineering", "Docs", "a.txt">>
Urls == {MatchingUrl, <<"https://contoso.example", "teams", "x">>, <<"no url">>}

\* regex.match(url): the groups, or nothing.
MatchUrl(url) ==
    IF Len(url) >= 3 /\ url[2] = "sites"
    THEN <<[site_name |-> url[3], server_url |-> url[1]]>>
    ELSE <<>>

DefaultSession(cfg, n0, failAt) ==
    Construct(cfg.SHAREPOINT_SITE, cfg.SHAREPOINT_SERVER_URL, <<>>,
              cfg.SHAREPOINT_CLIENT_ID, cfg.SHAREPOINT_CLIENT_SECRET, n0, failAt)

from_url(url, cfg, failAt) ==
    LET matches == MatchUrl(url)
    IN  IF matches # <<>>
        THEN LET c == Construct(matches[1].site_name, matches[1].server_url, <<>>,
                                cfg.SHAREPOINT_CLIENT_ID, cfg.SHAREPOINT_CLIENT_SECRET,
                                0, failAt)
             IN  IF c.st = "ret" THEN c
                 ELSE IF ~IsSharepointError(c.err) THEN c
                 ELSE LET d == DefaultSession(cfg, c.net, failAt)
                      IN  [d EXCEPT !.ctxs = c.ctxs + d.ctxs, !.caught = c.err]
        ELSE DefaultSession(cfg, 0, failAt)

(* --------------------------- TransferService -------------------------- *)

\* os.path.exists
Exists(lf, path) == path \in lf

\* os.path.basename
Basename(path) == IF path = <<>> THEN "" ELSE path[Len(path)]

\* open(path, "rb") succeeds
Readable(lf, path) == path \in lf /\ path # LockedPath

\* open(path, "wb") succeeds: the directory exists
Writable(path) == path # <<>> /\ path[1] = "data"

\* os.path.getsize, in bytes
FileSize(path) ==
    CASE path = ReadablePath -> 2500000
      [] path = LockedPath -> 1
      [] OTHER -> 1000000

size_chunk == 1000000

\* The requests of an upload session: one per chunk.
Chunks(file_size) == (file_size + size_chunk - 1) \div size_chunk

\* Mutant: the check of file_content left out.
ContentNeverMissing(file_content) == FALSE

\* `elif not file_content:` in upload_file
ContentMissing(file_content) == file_content = ""

\* What upload_file does with an error raised inside its try block.
UploadFailed(e, n, adds) ==
    IF IsSharepointError(e)
    THEN [RetNone(n) EXCEPT !.caught = e, !.adds = adds]
    ELSE [Raise(e, n) EXCEPT !.adds = adds]

\* The result of upload_file, the site's lists and its files after it.
\* The service refuses a file without a name (bytes passed with no file_name).
upload_file(ls, rf, lf, document_library_name, root_folder, file_path, file_content, file_name, failAt) ==
    LET exists == Exists(lf, file_path)
        name == IF exists /\ file_name = "" THEN Basename(file_path) ELSE file_name
    IN  IF exists /\ ~Readable(lf, file_path)
        THEN [r |-> UploadFailed("OSError", 0, 0), libs |-> ls, rfiles |-> rf]
        ELSE IF ~exists /\ ContentMissing(file_content)
        THEN [r |-> UploadFailed("SharepointError", 0, 0), libs |-> ls, rfiles |-> rf]
        ELSE LET target == create_folder(ls, document_library_name, root_folder, 0, failAt)
                 t == target.r
             IN  IF t.st = "raise"
                 THEN [r |-> UploadFailed(t.err, t.net, t.adds),
                       libs |-> target.libs, rfiles |-> rf]
                 ELSE IF t.net + 1 = failAt \/ name = ""
                 THEN [r |-> UploadFailed("RemoteError", t.net + 1, t.adds),
                       libs |-> target.libs, rfiles |-> rf]
                 ELSE [r |-> [Ret(<<document_library_name, root_folder, name>>, t.net + 1)
                                EXCEPT !.adds = t.adds],
                       libs |-> target.libs,
                       rfiles |-> rf \cup {<<document_library_name, root_folder, name>>}]

\* The folder at the server-relative url "<library>/<root_folder>" exists.
FolderAt(ls, document_libary_name, root_folder) ==
    \E i \in 1..Len(ls) :
        ls[i].title = document_libary_name /\ root_folder \in ls[i].folders

\* The chunk requests k..total of an upload session: the number sent, and
\* whether the session ended with an error.
RECURSIVE SendChunks(_, _, _, _)
SendChunks(k, total, failAt, folderExists) ==
    IF k > total THEN [net |-> total, failed |-> FALSE]
    ELSE IF k = failAt \/ ~folderExists THEN [net |-> k, failed |-> TRUE]
    ELSE SendChunks(k + 1, total, failAt, folderExists)

\* What upload_large_file does with an error raised inside its try block.
LargeUploadFailed(e, n) ==
    IF IsSharepointError(e)
    THEN [Ret(FALSE, n) EXCEPT !.caught = e]
    ELSE Raise(e, n)

upload_large_file(ls, rf, lf, document_libary_name, root_folder, file_path, failAt) ==
    IF ~Exists(lf, file_path)
    THEN [r |-> Raise("OSError", 0), rfiles |-> rf]
    ELSE IF ~Readable(lf, file_path)
    THEN [r |-> LargeUploadFailed("OSError", 0), rfiles |-> rf]
    ELSE LET sent == SendChunks(1, Chunks(FileSize(file_path)), failAt,
                                FolderAt(ls, document_libary_name, root_folder))
         IN  IF sent.failed
             THEN [r |-> LargeUploadFailed("RemoteError", sent.net), rfiles |-> rf]
             ELSE [r |-> Ret(TRUE, sent.net),
                   rfiles |-> rf \cup {<<document_libary_name, root_folder,
                                         Basename(file_path)>>}]

\* file_url.split(self.server_url)[-1]
RelativePath(file_url, server_url) ==
    IF file_url # <<>> /\ file_url[1] = server_url THEN Tail(file_url) ELSE file_url

get_file(rf, server_url, file_url, n0, failAt) ==
    LET path == RelativePath(file_url, server_url)
    IN  IF n0 + 1 = failAt \/ path \notin rf
        THEN Raise("RemoteError", n0 + 1)
        ELSE Ret(path, n0 + 1)

\* Mutant: the file opened without `with`, and never closed.
LeftOpen(hs, download_path) == hs

\* Leaving the `with open(...)` block of download_file.
CloseOnExit(hs, download_path) == hs \ {download_path}

\* What download_file does with an error raised inside its try block.
DownloadFailed(e, n) ==
    IF IsSharepointError(e)
    THEN [RetNone(n) EXCEPT !.caught = e]
    ELSE Raise(e, n)

\* The result of download_file, the local files and the open handles after it.
download_file(rf, lf, hs, server_url, file_url, download_path, failAt) ==
    IF ~Writable(download_path)
    THEN [r |-> DownloadFailed("OSError", 0), localFiles |-> lf, handles |-> hs]
    ELSE LET opened == hs \cup {download_path}
             created == lf \cup {download_path}
             file == get_file(rf, server_url, file_url, 0, failAt)
         IN  IF file.st = "raise"
             THEN [r |-> DownloadFailed(file.err, file.net), localFiles |-> created,
                   handles |-> CloseOnExit(opened, download_path)]
             ELSE IF file.net + 1 = failAt
             THEN [r |-> DownloadFailed("RemoteError", file.net + 1),
                   localFiles |-> created,
                   handles |-> CloseOnExit(opened, download_path)]
             ELSE [r |-> Ret(file.val, file.net + 1), localFiles |-> created,
                   handles |-> CloseOnExit(opened, download_path)]

(* ------------------------------ actions ------------------------------- *)

Returned(c) ==
    /\ last' = c
    /\ repeat' = Repeats(last, c)

\* SharepointAPI(site, server_url, root_cred_path, client_id, client_secret)
NewSharepointAPI ==
    \E site \in Sites, server_url \in Servers, root_cred_path \in CredPaths,
       client_id \in ClientIds, client_secret \in ClientSecrets, failAt \in 0..2 :
        LET r == Construct(site, server_url, root_cred_path, client_id,
                           client_secret, 0, failAt)
        IN  /\ session' = IF r.st = "ret" THEN r.val ELSE session
            /\ Returned(Call("__init__",
                             <<site, server_url, root_cred_path, client_id, client_secret>>, r))
            /\ UNCHANGED <<libs, rfiles, localFiles, handles, settings>>

FromUrl ==
    \E url \in Urls, failAt \in 0..4 :
        LET r == from_url(url, settings, failAt)
        IN  /\ session' = IF r.st = "ret" THEN r.val ELSE session
            /\ Returned(Call("from_url", <<url>>, r))
            /\ UNCHANGED <<libs, rfiles, localFiles, handles, settings>>

GetDocumentLibraryFromName ==
    \E name \in LibraryNames, failAt \in 0..1 :
        /\ session.state = "Ready"
        /\ Returned(Call("get_document_library_from_name", <<name>>,
                         get_document_library_from_name(libs, name, 0, failAt)))
        /\ UNCHANGED <<libs, rfiles, localFiles, handles, settings, session>>

FindFolder ==
    \E L \in LibraryNames, F \in FolderNames, failAt \in 0..2 :
        /\ session.state = "Ready"
        /\ Returned(Call("find_folder", <<L, F>>, find_folder(libs, L, F, 0, failAt)))
        /\ UNCHANGED <<libs, rfiles, localFiles, handles, settings, session>>

CreateFolder ==
    \E L \in LibraryNames, F \in FolderNames, failAt \in 0..4 :
        LET c == create_folder(libs, L, F, 0, failAt)
        IN  /\ session.state = "Ready"
            /\ libs' = c.libs
            /\ Returned(Call("create_folder", <<L, F>>, c.r))
            /\ UNCHANGED <<rfiles, localFiles, handles, settings, session>>

CreateDocumentLibrary ==
    \E name \in Titles, failAt \in 0..2 :
        LET c == create_document_library(libs, name, 0, failAt)
        IN  /\ session.state = "Ready"
            /\ Len(c.libs) <= MaxLibs
            /\ libs' = c.libs
            /\ Returned(Call("create_document_library", <<name>>, c.r))
            /\ UNCHANGED <<rfiles, localFiles, handles, settings, session>>

DeleteDocumentLibrary ==
    \E name \in LibraryNames, failAt \in 0..2 :
        LET c == delete_document_library(libs, name, 0, failAt)
        IN  /\ session.state = "Ready"
            /\ libs' = c.libs
            /\ rfiles' = IF Len(c.libs) < Len(libs)
                         THEN {f \in rfiles : f[1] # name}
                         ELSE rfiles
            /\ Returned(Call("delete_document_library", <<name>>, c.r))
            /\ UNCHANGED <<localFiles, handles, settings, session>>

GetListOfFolders ==
    \E name \in Queries, failAt \in 0..1 :
        /\ session.state = "Ready"
        /\ Returned(Call("get_list_of_folders", <<name>>,
                         get_list_of_folders(libs, name, failAt)))
        /\ UNCHANGED <<libs, rfiles, localFiles, handles, settings, session>>

UploadFile ==
    \E L \in Titles, root_folder \in TransferFolders, file_path \in UploadPaths,
       file_content \in Contents, file_name \in FileNames, failAt \in 0..5 :
        LET c == upload_file(libs, rfiles, localFiles, L, root_folder, file_path,
                             file_content, file_name, failAt)
        IN  /\ session.state = "Ready"
            /\ libs' = c.libs
            /\ rfiles' = c.rfiles
            /\ Returned(Call("upload_file",
                             <<L, root_folder, file_path, file_content, file_name>>, c.r))
            /\ UNCHANGED <<localFiles, handles, settings, session>>

UploadLargeFile ==
    \E L \in Titles, root_folder \in TransferFolders, file_path \in UploadPaths :
      \E failAt \in 0..Chunks(FileSize(file_path)) :
        LET c == upload_large_file(libs, rfiles, localFiles, L, root_folder,
                                   file_path, failAt)
        IN  /\ session.state = "Ready"
            /\ rfiles' = c.rfiles
            /\ Returned(Call("upload_large_file", <<L, root_folder, file_path>>, c.r))
            /\ UNCHANGED <<libs, localFiles, handles, settings, session>>

\* File urls: a file of this server, the same path on another server.
FileUrls ==
    {<<s, <<"D", "o">>, <<"r">>, n>> : s \in Servers \cup {"https://other.example"},
                                       n \in {"a.txt", "n.txt"}}

GetFile ==
    \E file_url \in FileUrls, failAt \in 0..1 :
        /\ session.state = "Ready"
        /\ Returned(Call("get_file", <<file_url>>,
                         get_file(rfiles, session.server_url, file_url, 0, failAt)))
        /\ UNCHANGED <<libs, rfiles, localFiles, handles, settings, session>>

DownloadFile ==
    \E file_url \in FileUrls, download_path \in DownloadPaths, failAt \in 0..2 :
        LET c == download_file(rfiles, localFiles, handles, session.server_url,
                               file_url, download_path, failAt)
        IN  /\ session.state = "Ready"
            /\ localFiles' = c.localFiles
            /\ handles' = c.handles
            /\ Returned(Call("download_file", <<file_url, download_path>>, c.r))
            /\ UNCHANGED <<libs, rfiles, settings, session>>

(* --------------------------- specifications --------------------------- *)

DefaultSite == "Standard"
DefaultServer == "https://default.example"

SettingsSet ==
    [SHAREPOINT_SITE : {DefaultSite}, SHAREPOINT_SERVER_URL : {DefaultServer},
     SHAREPOINT_CLIENT_ID : ClientIds, SHAREPOINT_CLIENT_SECRET : ClientSecrets]

\* Sites of at most MaxLibs lists, none with a folder yet.
RECURSIVE SeqsUpTo(_, _)
SeqsUpTo(S, n) ==
    IF n = 0 THEN {<<>>}
    ELSE LET shorter == SeqsUpTo(S, n - 1)
         IN  shorter \cup {Append(q, x) : q \in shorter, x \in S}

InitialLibs == SeqsUpTo([title : Titles, folders : {{}}], MaxLibs)

InitLocal ==
    /\ localFiles = {ReadablePath, LockedPath}
    /\ handles = {}
    /\ last = NoCall
    /\ repeat = "no"

\* Session construction: no object yet, any settings.
InitSession ==
    /\ InitLocal
    /\ libs = <<>>
    /\ rfiles = {}
    /\ settings \in SettingsSet
    /\ session = NoSession

NextSession == NewSharepointAPI \/ FromUrl

SpecSession == InitSession /\ [][NextSession]_vars

ReadySettings ==
    [SHAREPOINT_SITE |-> DefaultSite, SHAREPOINT_SERVER_URL |-> DefaultServer,
     SHAREPOINT_CLIENT_ID |-> "id", SHAREPOINT_CLIENT_SECRET |-> "secret"]

\* The resource operations of a constructed object, on any site.
InitLocator ==
    /\ InitLocal
    /\ libs \in InitialLibs
    /\ rfiles = {}
    /\ settings = ReadySettings
    /\ session = Ready(DefaultSite, DefaultServer)

NextLocator ==
    \/ GetDocumentLibraryFromName
    \/ FindFolder
    \/ CreateFolder
    \/ CreateDocumentLibrary
    \/ DeleteDocumentLibrary
    \/ GetListOfFolders

SpecLocator == InitLocator /\ [][NextLocator]_vars

TransferLibs ==
    {<<>>,
     <<[title |-> <<"D", "o">>, folders |-> {}]>>,
     <<[title |-> <<"D", "o">>, folders |-> {<<"r">>}]>>,
     <<[title |-> <<"D", "o">>, folders |-> {}], [title |-> <<"D", "o">>, folders |-> {}]>>}

\* The transfers of a constructed object.
InitTransfer ==
    /\ InitLocal
    /\ libs \in TransferLibs
    /\ rfiles \in {{}, {<<<<"D", "o">>, <<"r">>, "n.txt">>}}
    /\ settings = ReadySettings
    /\ session = Ready(DefaultSite, DefaultServer)

NextTransfer == UploadFile \/ UploadLargeFile \/ GetFile \/ DownloadFile

SpecTransfer == InitTransfer /\ [][NextTransfer]_vars

(* ------------------------------ properties ---------------------------- *)

\* The number of the site's lists whose title is exactly name.
TitleCount(name) == Cardinality({i \in 1..Len(libs) : libs[i].title = name})

\* C1: a create_folder call that follows a create_folder call with the same
\* (library, folder) arguments, both having returned, returns the same folder,
\* sends no add request, and leaves exactly one folder of that name in the
\* library's root.
C1_CreateFolderIdempotent ==
    (last.op = "create_folder" /\ repeat # "no") =>
        /\ repeat = "same"
        /\ last.adds = 0
        /\ last.val[2] = last.args[2]
        /\ Cardinality({f \in libs[last.val[1]].folders : f = last.args[2]}) = 1

C1_Witness ==
    /\ last.op = "create_folder"
    /\ repeat = "same"
    /\ last.net = 2

\* C2: when the filter query is answered, get_document_library_from_name
\* returns the list with the requested title if exactly one list has it, and
\* None if no list or more than one list has it; the number of matches never
\* makes it raise.
C2_SingleLibraryOrAbsent ==
    last.op = "get_document_library_from_name" =>
        IF last.st = "ret"
        THEN /\ (TitleCount(last.args[1]) = 1) <=> ~last.none
             /\ ~last.none => libs[last.val].title = last.args[1]
        ELSE last.err = "RemoteError"

C2_Witness ==
    /\ last.op = "get_document_library_from_name"
    /\ last.st = "ret"
    /\ last.none
    /\ TitleCount(last.args[1]) >= 2

\* C3: a construction that reaches the web query raises exactly when that
\* query fails (one request sent); once the web query has succeeded (two
\* requests sent) it returns a Ready session bound to the given site and
\* server, whether the site query fails or not.
C3_TwoPhaseConstruction ==
    (last.op = "__init__" /\ last.ctxs = 1) =>
        /\ last.net = 1 => (last.st = "raise" /\ last.err = "RemoteError")
        /\ last.net = 2 =>
              /\ last.st = "ret"
              /\ last.val = Ready(last.args[1], last.args[2])
              /\ session = last.val
        /\ last.net \in {1, 2}

C3_Witness ==
    /\ last.op = "__init__"
    /\ last.st = "ret"
    /\ last.caught = "RemoteError"
    /\ session.state = "Ready"

\* C4: a construction with no root_cred_path and an empty client_id or an
\* empty client_secret raises Exception before any context is built and
\* before any request is sent; from_url with such settings does the same.
C4_MissingCredentialsFail ==
    /\ (/\ last.op = "__init__"
        /\ last.args[3] = <<>>
        /\ (last.args[4] = "" \/ last.args[5] = ""))
         => (last.st = "raise" /\ last.err = "Exception" /\ last.ctxs = 0 /\ last.net = 0)
    /\ (/\ last.op = "from_url"
        /\ (settings.SHAREPOINT_CLIENT_ID = "" \/ settings.SHAREPOINT_CLIENT_SECRET = ""))
         => (last.st = "raise" /\ last.err = "Exception" /\ last.ctxs = 0 /\ last.net = 0)

C4_Witness ==
    /\ last.op = "__init__"
    /\ last.args[3] = <<>>
    /\ last.args[4] = "id"
    /\ last.args[5] = ""
    /\ last.st = "raise"

\* The upload_file call of last was given a file_path that does not exist
\* and no file_content.
NothingToUpload(c) ==
    /\ c.op = "upload_file"
    /\ c.args[3] \notin localFiles
    /\ c.args[4] = ""

\* C5 as stated: upload_file with a nonexistent file_path and no file_content
\* fails with the input error, without a network call.
C5_RaisesInputError ==
    NothingToUpload(last) =>
        (last.st = "raise" /\ last.err = "SharepointError" /\ last.net = 0)

\* C5 amended: upload_file with a nonexistent file_path and no file_content
\* raises the input error inside its own try block, catches and logs it, and
\* returns None; it sends no request, and the site's lists and files are
\* unchanged by the call.
C5_InputErrorReturnsNone ==
    [][NothingToUpload(last') =>
          /\ last'.st = "ret"
          /\ last'.none
          /\ last'.caught = "SharepointError"
          /\ last'.net = 0
          /\ last'.adds = 0
          /\ libs' = libs
          /\ rfiles' = rfiles]_vars

C5_Witness ==
    /\ NothingToUpload(last)
    /\ last.args[3] = MissingPath
    /\ last.none
    /\ last.caught = "SharepointError"

\* C6: when get_file or the download request of download_file fails, the
\* file at download_path exists locally, no handle on it is left open, and
\* download_file returns None.
C6_DownloadFailureSoft ==
    (last.op = "download_file" /\ "RemoteError" \in {last.err, last.caught}) =>
        /\ last.args[2] \in localFiles
        /\ last.args[2] \notin handles
        /\ last.st = "ret"
        /\ last.none

C6_Witness ==
    /\ last.op = "download_file"
    /\ last.caught = "RemoteError"
    /\ last.net = 2
    /\ OutPath \in localFiles

\* C7 as stated: from_url binds the session to the (site_name, server_url)
\* pair of a URL that matches the pattern, never to the default pair, and to
\* the default pair for a URL that does not match.
C7_MatchedUrlBindsExtractedPair ==
    (last.op = "from_url" /\ last.st = "ret") =>
        LET matches == MatchUrl(last.args[1])
        IN  IF matches # <<>>
            THEN /\ session.site = matches[1].site_name
                 /\ session.server_url = matches[1].server_url
            ELSE /\ session.site = settings.SHAREPOINT_SITE
                 /\ session.server_url = settings.SHAREPOINT_SERVER_URL

\* title contains name, letters compared without case.
ContainsIgnoringCase(name, title) ==
    \E k \in 0..(Len(title) - Len(name)) :
        \A j \in 1..Len(name) : LowerChar(name[j]) = LowerChar(title[k + j])

\* C8: when the enumeration is answered, get_list_of_folders returns, for a
\* non-empty name, the lists whose title contains name case-insensitively, in
\* enumeration order, and for an empty name all lists in enumeration order.
C8_ListFoldersFilter ==
    (last.op = "get_list_of_folders" /\ last.caught = "") =>
        /\ last.st = "ret"
        /\ ~last.none
        /\ last.val =
              IF last.args[1] = <<>>
              THEN Indices(libs)
              ELSE SelectSeq(Indices(libs),
                             LAMBDA i : ContainsIgnoringCase(last.args[1], libs[i].title))

C8_Witness ==
    /\ last.op = "get_list_of_folders"
    /\ last.args[1] = <<"D", "O">>
    /\ Len(last.val) = 1
    /\ Len(libs) = 2
    /\ libs[last.val[1]].title = <<"D", "o">>

\* C9 as stated: whenever a step of upload_file or upload_large_file fails,
\* nothing propagates: upload_file returns None, upload_large_file False.
C9_UploadFailuresNeverPropagate ==
    (/\ last.op \in {"upload_file", "upload_large_file"}
     /\ (last.err # "" \/ last.caught # "")) =>
        /\ last.st = "ret"
        /\ IF last.op = "upload_file" THEN last.none ELSE last.val = FALSE

\* C10 as stated: find_folder returns None when the library name resolves to
\* no list; when it resolves, it returns the folder of that exact name in the
\* list's root, and None if there is none.
C10_FindFolderAbsentLibrary ==
    (last.op = "find_folder" /\ last.err # "RemoteError") =>
        /\ last.st = "ret"
        /\ IF TitleCount(last.args[1]) = 1
           THEN ~last.none <=>
                   \E i \in 1..Len(libs) :
                       /\ libs[i].title = last.args[1]
                       /\ last.args[2] \in libs[i].folders
           ELSE last.none

====
